---- MODULE Spec2Model ----
(***************************************************************************)
(* Model of src/app.py (AlphaEarth-Risk): the Earth Engine damage analyses *)
(* (analyze_fire_damage, analyze_flood_damage, analyze_landslide_damage),  *)
(* the imagery selection and dispatch of get_satellite_imagery, and the    *)
(* /analyze endpoint with its response cache.                              *)
(*                                                                         *)
(* Numbers.  Band reflectances are positive integers; a spectral index is  *)
(* the exact rational [n, d] of normalizedDifference and a threshold t is  *)
(* kept in tenths (0.6 is 6), so that index comparisons are exact integer  *)
(* cross-multiplications.  damage_percent is kept in hundredths of a       *)
(* percent (the code rounds to 2 decimals): 100.0 is 10000.  Time is in    *)
(* whole months, the unit of ee.Date.advance(+-3, 'month').                *)
(***************************************************************************)
EXTENDS Integers, Sequences, FiniteSets, TLC

VARIABLES
    catalogue,      \* provider: the images of COPERNICUS/S2_SR_HARMONIZED
    total_meters,   \* provider: aoi.area(), the geometric area of the AOI
    emptySum,       \* provider: what a sum reduction over no pixel yields
    call,           \* the get_satellite_imagery call of the last operation, if any
    ret,            \* what that call returned or raised
    cache,          \* flask_caching SimpleCache: cache_key -> response_data
    body,           \* JSON body of the last POST /analyze
    response,       \* HTTP response to it
    damage_percent, \* input of the severity classification
    status          \* its label

vars == <<catalogue, total_meters, emptySum, call, ret, cache, body, response,
          damage_percent, status>>

---------------------------------------------------------------------------
(* Bounds of the model *)

\* pixels of the area of interest at the reduction scale
NPix == 2
\* acquisition times are 1..MaxTime
MaxTime == 6
\* the pixel-summed area of the whole AOI and aoi.area() differ by at most this
MaxAreaErr == 1
\* the classification is applied to 0 .. MaxPercent hundredths of a percent
MaxPercent == 10100

(* Program constants *)

burn_threshold == 6
water_threshold == 3
slide_threshold == 4
scale == 30
CloudMax == 15
WindowMonths == 3
SevereAbove == 70
ConsiderableAbove == 30
NoDamageBelow == 5

---------------------------------------------------------------------------
(* Python and Earth Engine values *)

\* Python's None
None == [py |-> "None", v |-> 0]
\* a number fetched from the provider, and the provider's null
Num(n) == [py |-> "number", v |-> n]
Null == [py |-> "null", v |-> 0]
\* a client-side proxy of a server-side value (ee.ComputedObject): what
\* reduceRegion(...).get(band) returns; its value is known only to getInfo()
ComputedObject(info) == [py |-> "ee.ComputedObject", info |-> info]
getInfo(obj) == obj.info
\* Python `x is None`
IsNone(x) == x = None

Pixels == 1 .. NPix

\* surface signatures: reflectance in bands B3 (green), B4 (red), B8 (nir)
\*   veg    NDVI  4/5   NDWI -4/5
\*   bare   NDVI  1/4   NDWI -3/7     veg -> bare   dNDVI 0.55
\*   sparse NDVI  1/5   NDWI -1/2     veg -> sparse dNDVI 0.60 exactly
\*   edge   NDVI  2/5   NDWI  3/10    veg -> edge   dNDVI 0.40 exactly
\*   ash    NDVI  0     NDWI -1/3     veg -> ash    dNDVI 0.80
\*   water  NDVI -1/3   NDWI  3/5
Signature(s) ==
    CASE s = "veg"    -> [B3 |-> 1,  B4 |-> 1, B8 |-> 9]
      [] s = "bare"   -> [B3 |-> 2,  B4 |-> 3, B8 |-> 5]
      [] s = "sparse" -> [B3 |-> 1,  B4 |-> 2, B8 |-> 3]
      [] s = "edge"   -> [B3 |-> 13, B4 |-> 3, B8 |-> 7]
      [] s = "ash"    -> [B3 |-> 1,  B4 |-> 2, B8 |-> 2]
      [] s = "water"  -> [B3 |-> 4,  B4 |-> 2, B8 |-> 1]

Surfaces == {"veg", "bare", "sparse", "edge", "ash", "water"}

\* an image: acquisition time (system:time_start), CLOUDY_PIXEL_PERCENTAGE,
\* footprint tile and, per pixel of the AOI, the surface it shows
Image(t, cloud, tile, pix) == [time |-> t, cloud |-> cloud, tile |-> tile, pix |-> pix]
NoImage == Image(0, 0, "none", <<>>)

\* ee.Geometry.Point(lon, lat).buffer(1000): the tile the AOI lies in
aoi(lat, lon) ==
    IF lat = 30 /\ lon = -90 THEN "NewOrleans"
    ELSE IF lat = 34 /\ lon = -118 THEN "LosAngeles"
    ELSE "elsewhere"

---------------------------------------------------------------------------
(* Spectral indices *)

\* image.normalizedDifference([a, b]) at one pixel: (a - b) / (a + b)
normalizedDifference(image, p, a, b) ==
    LET px == Signature(image.pix[p])
    IN  [n |-> px[a] - px[b], d |-> px[a] + px[b]]

calculate_ndvi(image, p) == normalizedDifference(image, p, "B8", "B4")

\* x.subtract(y)
subtract(x, y) == [n |-> x.n * y.d - y.n * x.d, d |-> x.d * y.d]
\* x.gt(t), x.lt(t) for a threshold of t tenths; denominators are positive
gt(x, t) == 10 * x.n > t * x.d
lt(x, t) == 10 * x.n < t * x.d

---------------------------------------------------------------------------
(* Area aggregation *)

\* ee.Image.pixelArea() at scale=30
pixelArea(p) == scale * scale

\* Reducer.sum() of pixelArea over the set (unmasked) pixels
RECURSIVE sumArea(_)
sumArea(mask) ==
    IF mask = {} THEN 0
    ELSE LET p == CHOOSE q \in mask : TRUE
         IN  pixelArea(p) + sumArea(mask \ {p})

\* mask.multiply(pixel_area).reduceRegion(Reducer.sum(), aoi, scale=30).get(band):
\* a proxy of the summed area of the set pixels; over no pixel the provider
\* yields null or 0 (emptySum)
reduceRegion(mask) ==
    ComputedObject(IF mask = {}
                   THEN (IF emptySum = "null" THEN Null ELSE Num(0))
                   ELSE Num(sumArea(mask)))

\* round((meters / total) * 100, 2) in hundredths, ties to even
round2(meters, total) ==
    LET q == (meters * 10000) \div total
        r == (meters * 10000) % total
    IN  IF 2 * r > total THEN q + 1
        ELSE IF 2 * r < total THEN q
        ELSE IF q % 2 = 0 THEN q ELSE q + 1

\* what an analysis hands back: (damage_percent, analysis image) or an exception
Returned(percent, mask, layer) ==
    [raised |-> "none", damage_percent |-> percent, mask |-> mask, layer |-> layer]
Raised(error, mask) ==
    [raised |-> error, damage_percent |-> 0, mask |-> mask, layer |-> "none"]

\* lines 35-45 (and 58-68, 81-91): total area, the None check, the percentage.
\* failAt names the provider round trip that fails, if any.
aggregate(meters, mask, layer, failAt) ==
    IF failAt = "area" THEN Raised("ProviderError", mask)
    ELSE IF IsNone(meters) THEN Returned(0, mask, layer)
    ELSE IF failAt = "reduce" THEN Raised("ProviderError", mask)
    ELSE IF getInfo(meters) = Null THEN Raised("TypeError", mask)
    ELSE Returned(round2(getInfo(meters).v, total_meters), mask, layer)

---------------------------------------------------------------------------
(* The three analyses *)

\* lines 27-45
analyze_fire_damage(image_before, image_after, failAt) ==
    LET dndvi(p) == subtract(calculate_ndvi(image_before, p), calculate_ndvi(image_after, p))
        burned_area == {p \in Pixels : gt(dndvi(p), burn_threshold)}
        burned_meters == reduceRegion(burned_area)
    IN  aggregate(burned_meters, burned_area, "dNDVI", failAt)

\* lines 48-68
analyze_flood_damage(image_before, image_after, failAt) ==
    LET ndwi_before(p) == normalizedDifference(image_before, p, "B3", "B8")
        ndwi_after(p) == normalizedDifference(image_after, p, "B3", "B8")
        not_water_before(p) == lt(ndwi_before(p), water_threshold)
        is_water_after(p) == gt(ndwi_after(p), water_threshold)
        flooded_area == {p \in Pixels : not_water_before(p) /\ is_water_after(p)}
        flooded_meters == reduceRegion(flooded_area)
    IN  aggregate(flooded_meters, flooded_area, "NDWI_After", failAt)

\* a slip of the landslide threshold: 0.8 for 0.4
analyze_landslide_damage_high_threshold(image_before, image_after, failAt) ==
    LET dndvi(p) == subtract(calculate_ndvi(image_before, p), calculate_ndvi(image_after, p))
        slide_area == {p \in Pixels : gt(dndvi(p), 2 * slide_threshold)}
        slide_meters == reduceRegion(slide_area)
    IN  aggregate(slide_meters, slide_area, "dNDVI", failAt)

\* lines 71-91
analyze_landslide_damage(image_before, image_after, failAt) ==
    LET dndvi(p) == subtract(calculate_ndvi(image_before, p), calculate_ndvi(image_after, p))
        slide_area == {p \in Pixels : gt(dndvi(p), slide_threshold)}
        slide_meters == reduceRegion(slide_area)
    IN  aggregate(slide_meters, slide_area, "dNDVI", failAt)

---------------------------------------------------------------------------
(* Imagery selection and dispatch *)

\* collection.filterDate(start, end): start inclusive, end exclusive
filterDate(collection, start, end) ==
    {img \in collection : start <= img.time /\ img.time < end}

\* a sort that ignores its direction: always the earliest image
first_ignoring_direction(collection, ascending) ==
    CHOOSE img \in collection : \A other \in collection : img.time <= other.time

\* collection.sort('system:time_start', ascending).first()
first(collection, ascending) ==
    CHOOSE img \in collection :
        \A other \in collection :
            IF ascending THEN img.time <= other.time ELSE img.time >= other.time

\* image.getThumbUrl(vis)
getThumbUrl(what, vis) == <<"thumb", what, vis>>

NoUrls == [before |-> <<>>, after |-> <<>>, damage_map |-> <<>>]

\* the outcome of get_satellite_imagery: raised = "none" and the four returned
\* values, or the exception raised; image_before, image_after, analysis and mask
\* record how far the call got
Outcome(raised, percent, before, after, analysis, mask, urls) ==
    [raised |-> raised, damage_percent |-> percent, image_before |-> before,
     image_after |-> after, analysis |-> analysis, mask |-> mask, urls |-> urls]

\* a hurricane branch that runs the vegetation analysis of the fire branch
dispatch_hurricane_as_fire(disaster_type, image_before, image_after, failAt) ==
    IF disaster_type = "fire" \/ disaster_type = "hurricane"
    THEN [analysis |-> "fire", vis |-> "dNDVI_fire",
          out |-> analyze_fire_damage(image_before, image_after, failAt)]
    ELSE IF disaster_type = "flood"
    THEN [analysis |-> "flood", vis |-> "NDWI",
          out |-> analyze_flood_damage(image_before, image_after, failAt)]
    ELSE IF disaster_type = "earthquake"
    THEN [analysis |-> "landslide", vis |-> "dNDVI_slide",
          out |-> analyze_landslide_damage(image_before, image_after, failAt)]
    ELSE [analysis |-> "none", vis |-> "none",
          out |-> Raised("UnsupportedDisasterType", {})]

\* lines 123-147: the branch on disaster_type
dispatch(disaster_type, image_before, image_after, failAt) ==
    IF disaster_type = "fire"
    THEN [analysis |-> "fire", vis |-> "dNDVI_fire",
          out |-> analyze_fire_damage(image_before, image_after, failAt)]
    ELSE IF disaster_type = "flood"
    THEN [analysis |-> "flood", vis |-> "NDWI",
          out |-> analyze_flood_damage(image_before, image_after, failAt)]
    ELSE IF disaster_type = "hurricane"
    THEN [analysis |-> "flood", vis |-> "NDWI",
          out |-> analyze_flood_damage(image_before, image_after, failAt)]
    ELSE IF disaster_type = "earthquake"
    THEN [analysis |-> "landslide", vis |-> "dNDVI_slide",
          out |-> analyze_landslide_damage(image_before, image_after, failAt)]
    ELSE [analysis |-> "none", vis |-> "none",
          out |-> Raised("UnsupportedDisasterType", {})]

\* a cloud filter that lets the limit itself through (lte for lt)
eligible_inclusive(lat, lon) ==
    {img \in catalogue : img.tile = aoi(lat, lon) /\ img.cloud <= CloudMax}

\* lines 104-109: the cloud-filtered collection over the AOI, split at the event date
eligible(lat, lon) ==
    {img \in catalogue : img.tile = aoi(lat, lon) /\ img.cloud < CloudMax}
collection_before(lat, lon, date) ==
    filterDate(eligible(lat, lon), date - WindowMonths, date)
collection_after(lat, lon, date) ==
    filterDate(eligible(lat, lon), date, date + WindowMonths)

\* lines 150-156: the three previews and the returned tuple, unless the
\* analysis d raised
render(d, image_before, image_after, failAt) ==
    IF d.out.raised # "none"
    THEN Outcome(d.out.raised, 0, image_before, image_after, d.analysis,
                 d.out.mask, NoUrls)
    ELSE IF failAt = "thumb"
    THEN Outcome("ProviderError", 0, image_before, image_after, d.analysis,
                 d.out.mask, NoUrls)
    ELSE Outcome("none", d.out.damage_percent, image_before, image_after,
                 d.analysis, d.out.mask,
                 [before |-> getThumbUrl(image_before.time, "rgb"),
                  after |-> getThumbUrl(image_after.time, "rgb"),
                  damage_map |-> getThumbUrl(d.out.layer, d.vis)])

\* lines 114-156: the images nearest the event, the analysis, the previews
analyze_pair(image_before, image_after, disaster_type, failAt) ==
    render(dispatch(disaster_type, image_before, image_after, failAt),
           image_before, image_after, failAt)

\* lines 111-156: the two size checks, then the rest
select(before, after, disaster_type, failAt) ==
    IF failAt = "size_before"
    THEN Outcome("ProviderError", 0, NoImage, NoImage, "none", {}, NoUrls)
    ELSE IF Cardinality(before) = 0
    THEN Outcome("NoEligibleImagery", 0, NoImage, NoImage, "none", {}, NoUrls)
    ELSE IF failAt = "size_after"
    THEN Outcome("ProviderError", 0, NoImage, NoImage, "none", {}, NoUrls)
    ELSE IF Cardinality(after) = 0
    THEN Outcome("NoEligibleImagery", 0, NoImage, NoImage, "none", {}, NoUrls)
    ELSE analyze_pair(first(before, FALSE), first(after, TRUE), disaster_type, failAt)

\* lines 96-156
get_satellite_imagery(lat, lon, disaster_date_str, disaster_type, failAt) ==
    select(collection_before(lat, lon, disaster_date_str),
           collection_after(lat, lon, disaster_date_str),
           disaster_type, failAt)

---------------------------------------------------------------------------
(* The /analyze endpoint *)

\* a JSON value of the request body
Float(n) == [py |-> "number", v |-> n]
Str(x) == [py |-> "str", v |-> x]

\* Python truthiness of the values a request can hold: None and 0 are false
truthy(x) == ~IsNone(x) /\ x # Float(0)

\* a severe threshold that includes 70 (>= for >)
classify_inclusive(percent) ==
    IF percent >= SevereAbove * 100
    THEN "AUTOMATICALLY APPROVED (Severe Damage)"
    ELSE IF percent > ConsiderableAbove * 100
    THEN "FLAGGED FOR REVIEW (Considerable Damage)"
    ELSE IF percent < NoDamageBelow * 100
    THEN "No Significant Damage Detected"
    ELSE "Light Damage Detected"

\* lines 184-190: the severity label of a damage_percent (in hundredths)
classify(percent) ==
    IF percent > SevereAbove * 100
    THEN "AUTOMATICALLY APPROVED (Severe Damage)"
    ELSE IF percent > ConsiderableAbove * 100
    THEN "FLAGGED FOR REVIEW (Considerable Damage)"
    ELSE IF percent < NoDamageBelow * 100
    THEN "No Significant Damage Detected"
    ELSE "Light Damage Detected"

\* lines 206-224
risk_context(lat, lon, disaster_type) ==
    IF disaster_type = "flood" \/ disaster_type = "hurricane"
    THEN (IF (lat > 29 /\ lat < 31) /\ (lon > -91 /\ lon < -89)
          THEN "high-risk flood zone" ELSE "outside flood zones")
    ELSE IF disaster_type = "earthquake"
    THEN (IF (lat > 33 /\ lat < 35) /\ (lon > -119 /\ lon < -117)
          THEN "high-risk seismic zone" ELSE "outside seismic zones")
    ELSE IF disaster_type = "fire" THEN "wildfire under analysis"
    ELSE "not applicable"

\* line 172: f"analysis_{lat}_{lon}_{disaster_date}_{disaster_type}".  The dates
\* and types of the model hold no "_", so the string determines its four parts.
cache_key(lat, lon, disaster_date, disaster_type) ==
    <<"analysis", lat, lon, disaster_date, disaster_type>>

\* lines 192-224: the response of a successful analysis r
response_data(lat, lon, disaster_date, disaster_type, r) ==
    [status |-> classify(r.damage_percent),
     damage_percent |-> r.damage_percent,
     image_url_before |-> r.urls.before,
     image_url_after |-> r.urls.after,
     image_url_damage_map |-> r.urls.damage_map,
     location_processed |-> <<lat, lon>>,
     date_processed |-> disaster_date,
     type_processed |-> disaster_type,
     risk_context |-> risk_context(lat, lon, disaster_type)]

\* request.json: the four parameters, each a value or None when absent
Body(lat, lon, date, type) ==
    [lat |-> lat, lon |-> lon, disaster_date |-> date, disaster_type |-> type]
NoBody == Body(None, None, None, None)
NoData == [status |-> "none"]
NoCall == [made |-> FALSE]
NoReturn == [raised |-> "no call"]

\* an HTTP response: status code, the JSON object (result or error), whether it
\* came from the cache, and how many times the analysis was invoked for it
Http(code, kind, data, error, source, calls) ==
    [code |-> code, kind |-> kind, data |-> data, error |-> error,
     source |-> source, calls |-> calls]

\* what one run of the handler does: the response, the cache it leaves, and
\* its call of get_satellite_imagery, if any
Handled(resp, newCache, theCall, theReturn) ==
    [response |-> resp, cache |-> newCache, call |-> theCall, ret |-> theReturn]

Called(lat, lon, date, type, failAt) ==
    [made |-> TRUE, lat |-> lat, lon |-> lon, disaster_date |-> date,
     disaster_type |-> type, failAt |-> failAt]

\* a handler that stores the response of a failed analysis too
respond_storing_failure(key, r, made, data, store) ==
    IF key \in DOMAIN store
    THEN Handled(Http(200, "result", store[key], "none", "cache", 0),
                 store, NoCall, NoReturn)
    ELSE Handled(IF r.raised # "none"
                 THEN Http(500, "error", NoData, r.raised, "computed", 1)
                 ELSE Http(200, "result", data, "none", "computed", 1),
                 [k \in DOMAIN store \cup {key} |->
                     IF k = key THEN data ELSE store[k]],
                 made, r)

\* lines 175-233: the cached response if there is one; else the error of a
\* failed analysis r, or its result, which is stored
respond(key, r, made, data, store) ==
    IF key \in DOMAIN store
    THEN Handled(Http(200, "result", store[key], "none", "cache", 0),
                 store, NoCall, NoReturn)
    ELSE IF r.raised # "none"
    THEN Handled(Http(500, "error", NoData, r.raised, "computed", 1),
                 store, made, r)
    ELSE Handled(Http(200, "result", data, "none", "computed", 1),
                 [k \in DOMAIN store \cup {key} |->
                     IF k = key THEN data ELSE store[k]],
                 made, r)

\* lines 192-224 for the outcome r of the analysis
build(lat, lon, date, type, failAt, r, store) ==
    respond(cache_key(lat, lon, date, type), r,
            Called(lat, lon, date, type, failAt),
            response_data(lat, lon, date, type, r), store)

\* lines 172-233, the handler once lat and lon are floats
lookup_or_analyze(lat, lon, date, type, failAt, store) ==
    build(lat, lon, date, type, failAt,
          get_satellite_imagery(lat, lon, date, type, failAt), store)

\* lines 162-233: POST /analyze with JSON body data
handle(data, failAt, store) ==
    IF IsNone(data.lat) \/ IsNone(data.lon)
    THEN \* float(None): a TypeError outside the try block
         Handled(Http(500, "unhandled", NoData, "TypeError", "none", 0),
                 store, NoCall, NoReturn)
    ELSE IF ~(truthy(data.lat) /\ truthy(data.lon)
              /\ truthy(data.disaster_date) /\ truthy(data.disaster_type))
    THEN Handled(Http(400, "error", NoData, "MissingParameter", "none", 0),
                 store, NoCall, NoReturn)
    ELSE lookup_or_analyze(data.lat.v, data.lon.v, data.disaster_date.v,
                           data.disaster_type.v, failAt, store)

---------------------------------------------------------------------------
(* Inputs *)

Lats == {30, 34}
Lons == {-90}
Dates == {3, 5}
DisasterTypes == {"fire", "flood", "hurricane", "earthquake", "tsunami"}
Supported == {"fire", "flood", "hurricane", "earthquake"}
\* the provider round trip that fails during a call, if any
FailPoints == {"none", "size_before", "size_after", "area", "reduce", "thumb"}

\* request bodies: each parameter present or absent (None)
BodyLats == {None, Float(0), Float(30)}
BodyLons == {None, Float(-90)}
BodyDates == {None, Str(5)}
BodyTypes == {None} \cup {Str(t) : t \in DisasterTypes}

---------------------------------------------------------------------------
(* The provider's state *)

WholeArea == sumArea(Pixels)
Areas == {WholeArea - MaxAreaErr, WholeArea, WholeArea + MaxAreaErr}
EmptySums == {"null", "zero"}

\* catalogues for the selection: at every time at most one image, which is
\* clear (14% cloud), at the cloud limit (15%), or clear but over another tile
SlotKinds == {"none", "clear", "cloudy", "away"}
SurfaceOrder == <<"veg", "bare", "sparse", "edge", "ash", "water">>
SlotPix(t) == [p \in Pixels |-> IF t <= 2 THEN "veg" ELSE SurfaceOrder[((t + p) % 6) + 1]]
SlotImage(t, kind) ==
    IF kind = "clear" THEN Image(t, 14, "NewOrleans", SlotPix(t))
    ELSE IF kind = "cloudy" THEN Image(t, CloudMax, "NewOrleans", SlotPix(t))
    ELSE Image(t, 3, "LosAngeles", SlotPix(t))
SlotCatalogue(kinds) ==
    {SlotImage(t, kinds[t]) : t \in {u \in 1 .. MaxTime : kinds[u] # "none"}}

\* catalogues for the detection: one image before and one after time 5, of any
\* surfaces
BeforeSurfaces == {"veg", "edge"}
PairCatalogue(b, a) == {Image(4, 5, "NewOrleans", b), Image(5, 5, "NewOrleans", a)}

\* catalogues for the endpoint: any of four images, two of them too cloudy
Unchanged == [p \in Pixels |-> "veg"]
Burned == [p \in Pixels |-> IF p = 1 THEN "ash" ELSE "veg"]
EndpointPool ==
    {Image(3, 20, "NewOrleans", Unchanged), Image(4, 5, "NewOrleans", Unchanged),
     Image(5, 5, "NewOrleans", Burned), Image(6, CloudMax, "NewOrleans", Burned)}

Idle ==
    /\ call = NoCall
    /\ ret = NoReturn
    /\ cache = <<>>
    /\ body = NoBody
    /\ response = Http(0, "none", NoData, "none", "none", 0)
    /\ damage_percent = 0
    /\ status = "none"

InitSelection ==
    /\ \E kinds \in [1 .. MaxTime -> SlotKinds] : catalogue = SlotCatalogue(kinds)
    /\ total_meters = WholeArea
    /\ emptySum \in EmptySums

InitDetection ==
    /\ \E b \in [Pixels -> BeforeSurfaces], a \in [Pixels -> Surfaces] :
          catalogue = PairCatalogue(b, a)
    /\ total_meters \in Areas
    /\ emptySum \in EmptySums

---------------------------------------------------------------------------
(* Specification of the analysis: get_satellite_imagery applied to a request. *)
(* The function keeps no state between calls, so one call per behaviour      *)
(* reaches every outcome.                                                    *)

Init == (InitSelection \/ InitDetection) /\ Idle

Analyze ==
    /\ call = NoCall
    /\ \E lat \in Lats, lon \in Lons, date \in Dates, type \in DisasterTypes,
          failAt \in FailPoints :
           /\ call' = Called(lat, lon, date, type, failAt)
           /\ ret' = get_satellite_imagery(lat, lon, date, type, failAt)
           /\ UNCHANGED <<catalogue, total_meters, emptySum, cache, body, response,
                          damage_percent, status>>

Next == Analyze

Spec == Init /\ [][Next]_vars

---------------------------------------------------------------------------
(* Specification of the endpoint: requests to /analyze and cache expiry *)

InitEndpoint ==
    /\ catalogue \in SUBSET EndpointPool
    /\ total_meters = WholeArea
    /\ emptySum \in EmptySums
    /\ Idle

\* the effect on the state of the handler's run h on the body data
effect(data, h) ==
    /\ body' = data
    /\ response' = h.response
    /\ cache' = h.cache
    /\ call' = h.call
    /\ ret' = h.ret
    /\ UNCHANGED <<catalogue, total_meters, emptySum, damage_percent, status>>

analyze_damage_endpoint ==
    \E lat \in BodyLats, lon \in BodyLons, date \in BodyDates, type \in BodyTypes,
       failAt \in FailPoints :
        effect(Body(lat, lon, date, type),
               handle(Body(lat, lon, date, type), failAt, cache))

\* line 227, timeout=3600: an entry leaves the cache an hour after it was set
Expire ==
    \E key \in DOMAIN cache :
        /\ cache' = [k \in DOMAIN cache \ {key} |-> cache[k]]
        /\ UNCHANGED <<catalogue, total_meters, emptySum, call, ret, body, response,
                       damage_percent, status>>

NextEndpoint == analyze_damage_endpoint \/ Expire

SpecEndpoint == InitEndpoint /\ [][NextEndpoint]_vars

---------------------------------------------------------------------------
(* Specification of the classification: classify applied to a percentage *)

InitClassify ==
    /\ catalogue = {}
    /\ total_meters = WholeArea
    /\ emptySum = "zero"
    /\ call = NoCall
    /\ ret = NoReturn
    /\ cache = <<>>
    /\ body = NoBody
    /\ response = Http(0, "none", NoData, "none", "none", 0)
    /\ damage_percent \in 0 .. MaxPercent
    /\ status = "none"

Classify ==
    /\ status = "none"
    /\ status' = classify(damage_percent)
    /\ UNCHANGED <<catalogue, total_meters, emptySum, call, ret, cache, body,
                   response, damage_percent>>

NextClassify == Classify

SpecClassify == InitClassify /\ [][NextClassify]_vars

---------------------------------------------------------------------------
(* Properties *)

\* the request of the last call, in the claims' terms
Succeeded == call.made /\ ret.raised = "none"
Selected == call.made /\ ret.image_before # NoImage
ProviderAnswers == call.made /\ call.failAt = "none"

\* the images a selection may use: over the AOI, below 15% cloud, acquired in
\* [lo, hi)
EligibleIn(lo, hi) ==
    {img \in catalogue :
        /\ img.tile = aoi(call.lat, call.lon)
        /\ img.cloud < 15
        /\ lo <= img.time /\ img.time < hi}
BeforeWindow == EligibleIn(call.disaster_date - 3, call.disaster_date)
AfterWindow == EligibleIn(call.disaster_date, call.disaster_date + 3)

\* the vegetation-index delta and the water index of a pixel, times 100,
\* from the band values: 100 * ((nir - red)/(nir + red)) and so on, compared
\* by cross-multiplication
Bands(image, p) == Signature(image.pix[p])
VegDeltaAbove(p, hundredths) ==
    LET b == Bands(ret.image_before, p)
        a == Bands(ret.image_after, p)
    IN  100 * ((b.B8 - b.B4) * (a.B8 + a.B4) - (a.B8 - a.B4) * (b.B8 + b.B4))
            > hundredths * (b.B8 + b.B4) * (a.B8 + a.B4)
WaterIndexAbove(image, p, hundredths) ==
    LET x == Bands(image, p)
    IN  100 * (x.B3 - x.B8) > hundredths * (x.B3 + x.B8)
WaterIndexBelow(image, p, hundredths) ==
    LET x == Bands(image, p)
    IN  100 * (x.B3 - x.B8) < hundredths * (x.B3 + x.B8)

\* C1: a successful analysis returns a damage_percent in [0, 100], also when
\* the pixel-summed area differs from the geometric area of the AOI.
C1_PercentInRange ==
    Succeeded => (0 <= ret.damage_percent /\ ret.damage_percent <= 100 * 100)

\* C3: for a supported type, when no pixel passes the mask condition and the
\* provider's sum reduction is undefined, the analysis returns exactly 0.0 and
\* does not fail.
C3_EmptyMaskIsZero ==
    (/\ ProviderAnswers
     /\ Selected
     /\ call.disaster_type \in Supported
     /\ ret.mask = {}
     /\ emptySum = "null")
    => (ret.raised = "none" /\ ret.damage_percent = 0)

\* C4: a request whose disaster type is outside the supported set fails with
\* the unsupported-disaster-type error, whatever imagery exists.
C4_UnsupportedTypeError ==
    (ProviderAnswers /\ call.disaster_type \notin Supported)
    => ret.raised = "UnsupportedDisasterType"

\* C6: when the selection succeeds, the before image is the eligible image with
\* the latest timestamp in [event - 3 months, event), the after image the
\* eligible image with the earliest timestamp in [event, event + 3 months), so
\* before.time < event <= after.time and before.time < after.time.
C6_ClosestToEvent ==
    Selected =>
        /\ ret.image_before \in BeforeWindow
        /\ \A img \in BeforeWindow : img.time <= ret.image_before.time
        /\ ret.image_after \in AfterWindow
        /\ \A img \in AfterWindow : ret.image_after.time <= img.time
        /\ ret.image_before.time < call.disaster_date
        /\ call.disaster_date <= ret.image_after.time
        /\ ret.image_before.time < ret.image_after.time

\* the selection had a choice on both sides; a later image before the event
\* was passed over for its clouds and a clear one for being too old
C6_Witness ==
    /\ Selected
    /\ Cardinality(BeforeWindow) >= 2
    /\ Cardinality(AfterWindow) >= 2
    /\ \E img \in catalogue :
          /\ img.cloud >= 15
          /\ img.time > ret.image_before.time
          /\ img.time < call.disaster_date
    /\ \E img \in catalogue : img.time < call.disaster_date - 3 /\ img.cloud < 15

\* C7: on the same location, date and imagery, "hurricane" and "flood" give the
\* same change mask (water index before < 0.30 and after > 0.30), the same
\* damage_percent and the same severity label.
C7_HurricaneIsFlood ==
    (Selected /\ call.disaster_type \in {"flood", "hurricane"}) =>
        /\ ret.mask = {p \in Pixels :
                          /\ WaterIndexBelow(ret.image_before, p, 30)
                          /\ WaterIndexAbove(ret.image_after, p, 30)}
        /\ \A other \in {"flood", "hurricane"} :
              LET o == get_satellite_imagery(call.lat, call.lon, call.disaster_date,
                                             other, call.failAt)
              IN  /\ o.mask = ret.mask
                  /\ o.raised = ret.raised
                  /\ o.damage_percent = ret.damage_percent
                  /\ classify(o.damage_percent) = classify(ret.damage_percent)

\* a hurricane request succeeded with part of the AOI flooded
C7_Witness ==
    /\ Succeeded
    /\ call.disaster_type = "hurricane"
    /\ ret.mask # {} /\ ret.mask # Pixels
    /\ ret.damage_percent > 0

\* C8: on the same image pair, every pixel masked under "fire" (delta > 0.60)
\* is masked under "earthquake" (delta > 0.40), so the earthquake percentage is
\* never the lower one, and a pixel with delta in (0.40, 0.60] is damaged for
\* earthquake and not for fire.
C8_EarthquakeCoversFire ==
    (Selected /\ call.disaster_type \in {"fire", "earthquake"}) =>
        LET f == get_satellite_imagery(call.lat, call.lon, call.disaster_date,
                                       "fire", call.failAt)
            e == get_satellite_imagery(call.lat, call.lon, call.disaster_date,
                                       "earthquake", call.failAt)
        IN  /\ ret = IF call.disaster_type = "fire" THEN f ELSE e
            /\ f.mask \subseteq e.mask
            /\ (f.raised = "none" /\ e.raised = "none")
                  => f.damage_percent <= e.damage_percent
            /\ \A p \in Pixels :
                  (VegDeltaAbove(p, 40) /\ ~VegDeltaAbove(p, 60))
                      => (p \in e.mask /\ p \notin f.mask)

\* an earthquake request succeeded on a pair with one pixel at delta 0.60
\* exactly and one above it
C8_Witness ==
    /\ Succeeded
    /\ call.disaster_type = "earthquake"
    /\ \E p \in Pixels : VegDeltaAbove(p, 59) /\ ~VegDeltaAbove(p, 60)
    /\ \E p \in Pixels : VegDeltaAbove(p, 60)
    /\ ret.damage_percent > 0

\* C2: the severity label is a function of damage_percent alone: above 70
\* severe, above 30 and up to 70 considerable, below 5 none, from 5 to 30 light;
\* 70.0 is flagged, 30.0 and 5.0 are light.  The labels as the claim spells them:
C2_LabelsAsClaimed ==
    status # "none" =>
        status = CASE damage_percent > 7000 -> "Automatically Approved (Severe Damage)"
                   [] damage_percent > 3000 /\ damage_percent <= 7000 ->
                          "Flagged For Review (Considerable Damage)"
                   [] damage_percent < 500 -> "No Significant Damage Detected"
                   [] damage_percent >= 500 /\ damage_percent <= 3000 ->
                          "Light Damage Detected"

\* C2, amended: the same thresholds with the labels the endpoint sends,
\* "AUTOMATICALLY APPROVED (Severe Damage)" and
\* "FLAGGED FOR REVIEW (Considerable Damage)".
C2_Labels ==
    status # "none" =>
        /\ status = CASE damage_percent > 7000 -> "AUTOMATICALLY APPROVED (Severe Damage)"
                      [] damage_percent > 3000 /\ damage_percent <= 7000 ->
                             "FLAGGED FOR REVIEW (Considerable Damage)"
                      [] damage_percent < 500 -> "No Significant Damage Detected"
                      [] damage_percent >= 500 /\ damage_percent <= 3000 ->
                             "Light Damage Detected"
        /\ damage_percent = 7000 => status = "FLAGGED FOR REVIEW (Considerable Damage)"
        /\ damage_percent = 3000 => status = "Light Damage Detected"
        /\ damage_percent = 500 => status = "Light Damage Detected"

\* 70.0 has been classified, and is flagged for review
C2_Witness ==
    damage_percent = 7000 /\ status = "FLAGGED FOR REVIEW (Considerable Damage)"

\* C5: if the provider reports the cloud-filtered (< 15%) collection of the
\* before-window or of the after-window empty, the selection fails with the
\* no-eligible-imagery error before any image is selected, any analysis run or
\* any preview rendered, and the caller gets an error response, not a result.
C5_NoEligibleImagery ==
    (/\ call.made
     /\ call.failAt \notin {"size_before", "size_after"}
     /\ (BeforeWindow = {} \/ AfterWindow = {}))
    => /\ ret.raised = "NoEligibleImagery"
       /\ ret.image_before = NoImage /\ ret.image_after = NoImage
       /\ ret.analysis = "none"
       /\ ret.urls = NoUrls
       /\ response.code = 500 /\ response.kind = "error"
       /\ response.error = "NoEligibleImagery"
       /\ response.data = NoData

\* a request found an image before the event and, after it, only one at the
\* cloud limit
C5_Witness ==
    /\ call.made /\ call.failAt = "none"
    /\ BeforeWindow # {} /\ AfterWindow = {}
    /\ \E img \in catalogue : img.time >= call.disaster_date /\ img.cloud = 15
    /\ ret.raised = "NoEligibleImagery"
    /\ response.code = 500

\* the last operation was a request whose analysis failed
AnalysisFailed == call.made /\ ret.raised # "none"
KeyOf(c) == cache_key(c.lat, c.lon, c.disaster_date, c.disaster_type)

\* an entry of the cache is the response of a successful analysis of its key
C9_CacheHoldsSuccesses ==
    \A key \in DOMAIN cache :
        \E type \in Supported :
            LET r == get_satellite_imagery(key[2], key[3], key[4], type, "none")
            IN  /\ key = <<"analysis", key[2], key[3], key[4], type>>
                /\ r.raised = "none"
                /\ cache[key].damage_percent = r.damage_percent
                /\ cache[key].status = classify(r.damage_percent)
                /\ cache[key].type_processed = type
                /\ cache[key].date_processed = key[4]
                /\ cache[key].location_processed = <<key[2], key[3]>>

\* the response to a failed analysis is an error without result, after one call
C9_FailureIsAnError ==
    AnalysisFailed =>
        /\ response.code = 500 /\ response.kind = "error"
        /\ response.error = ret.raised
        /\ response.data = NoData
        /\ response.calls = 1
        /\ KeyOf(call) \notin DOMAIN cache

\* a request whose analysis fails leaves the cache as it was
C9_FailureKeepsCache ==
    (AnalysisFailed' /\ ~Expire) => cache' = cache

\* C9: a request whose analysis fails returns an error response carrying no
\* damage_percent or severity, after a single call of the analysis, and leaves
\* the cache unchanged; the cache holds an entry for a key only if an analysis
\* of exactly that key succeeded; so the same request after a failure is
\* computed again.
C9_FailuresAreNotCached ==
    /\ [](C9_CacheHoldsSuccesses /\ C9_FailureIsAnError)
    /\ [][C9_FailureKeepsCache]_vars

\* a request failed at the provider while the cache held another result
C9_Witness ==
    /\ AnalysisFailed
    /\ ret.raised = "ProviderError"
    /\ DOMAIN cache # {}
    /\ KeyOf(call) \notin DOMAIN cache
    /\ response.code = 500

\* C10: the endpoint answers 400 (missing parameter) exactly when one of lat,
\* lon, disaster_date, disaster_type is absent from the body; a body with all
\* four, a latitude of 0 included, goes on to the cache lookup and analysis.
C10_MissingParameter ==
    response.code # 0 =>
        (response.code = 400
            <=> None \in {body.lat, body.lon, body.disaster_date, body.disaster_type})

====
